---- MODULE Spec2Model ----
(***************************************************************************)
(* Model of scripts/generate-clusterapp-block-diagram.py: the dependency   *)
(* parser (parse_clusterapps), the name normaliser (get_base_name), the    *)
(* root finder (find_roots) and the breadth-first chain traversal and      *)
(* rendering of create_block_diagram.                                      *)
(*                                                                         *)
(* Text is modelled as sequences of one-character strings, so that strip,  *)
(* split, the version regex and Python's code-point ordering are computed  *)
(* and not assumed.  Box-drawing characters, which the tools cannot hold   *)
(* in a string, are written as the one-character tokens BOX_* / ARROW_D   *)
(* and the code fence as FENCE; a fixed literal of the output that no    *)
(* computation looks into is one token.                                   *)
(***************************************************************************)
EXTENDS Integers, Sequences, FiniteSets, TLC

\* ------------------------------------------------------------------ bounds

\* Number of lines of the input file.
MaxRecords == 3

\* Number of segments an identifier handed to get_base_name is built from.
MaxSegs == 3

\* Length of the identifier handed to draw_app_block on its own.
MaxNameLen == 64

\* ------------------------------------------------------------- characters

\* The characters the model's texts use, in code-point order (Python
\* compares strings by code point).
Ascii ==
  << "\n", " ", ",", "-", ".", "/", "0", "1", "2", "3", "4", "5", "6", "7",
     "8", "9", "A", "N", "a", "b", "c", "d", "e", "i", "n", "o", "p", "s", "t", "x",
     "|" >>

Code(ch) == CHOOSE i \in 1..Len(Ascii) : Ascii[i] = ch

IsDigit(ch) == ch \in {"0", "1", "2", "3", "4", "5", "6", "7", "8", "9"}

\* str.strip() with no argument removes whitespace.
IsSpace(ch) == ch \in {" ", "\n", "\t", "\r"}

\* s[:n]
Take(s, n) == IF Len(s) <= n THEN s ELSE SubSeq(s, 1, n)

\* Python's s < t on strings: lexicographic by code point.
RECURSIVE StrLess(_, _)
StrLess(s, t) ==
  IF t = << >> THEN FALSE
  ELSE IF s = << >> THEN TRUE
  ELSE IF Head(s) = Head(t) THEN StrLess(Tail(s), Tail(t))
  ELSE Code(Head(s)) < Code(Head(t))

\* str.strip()
RECURSIVE LStrip(_)
LStrip(s) == IF s # << >> /\ IsSpace(Head(s)) THEN LStrip(Tail(s)) ELSE s

RECURSIVE RStrip(_)
RStrip(s) ==
  IF s # << >> /\ IsSpace(s[Len(s)]) THEN RStrip(SubSeq(s, 1, Len(s) - 1)) ELSE s

Strip(s) == RStrip(LStrip(s))

\* str.split(sep) for a one-character separator: the parts between the
\* separators, empty parts kept.
RECURSIVE SplitFrom(_, _, _)
SplitFrom(s, sep, cur) ==
  IF s = << >> THEN << cur >>
  ELSE IF Head(s) = sep THEN << cur >> \o SplitFrom(Tail(s), sep, << >>)
  ELSE SplitFrom(Tail(s), sep, Append(cur, Head(s)))

Split(s, sep) == SplitFrom(s, sep, << >>)

\* ------------------------------------------------------------ get_base_name

\* Length of the run of digits of s that starts at position i.
RECURSIVE DigitRun(_, _)
DigitRun(s, i) ==
  IF i <= Len(s) /\ IsDigit(s[i]) THEN 1 + DigitRun(s, i + 1) ELSE 0

\* Whether -\d+\.\d+\.\d+ matches at position i.  A greedy \d+ never has
\* to give a digit back: what follows it must be a dot, or is ".*".
VersionAt(s, i) ==
  /\ i <= Len(s)
  /\ s[i] = "-"
  /\ LET d1 == DigitRun(s, i + 1)
         j  == i + 1 + d1
     IN /\ d1 >= 1
        /\ j <= Len(s)
        /\ s[j] = "."
        /\ LET d2 == DigitRun(s, j + 1)
               k  == j + 1 + d2
           IN /\ d2 >= 1
              /\ k <= Len(s)
              /\ s[k] = "."
              /\ DigitRun(s, k + 1) >= 1

\* re.sub scans from the left; the first match takes ".*$" with it, so the
\* rest of the string is gone and no second match follows.
RECURSIVE SubFrom(_, _)
SubFrom(s, i) ==
  IF i > Len(s) THEN s
  ELSE IF VersionAt(s, i) THEN SubSeq(s, 1, i - 1)
  ELSE SubFrom(s, i + 1)

\* A slip: the search runs from the right, so the last version is cut.
RECURSIVE SubFromRight(_, _)
SubFromRight(s, i) ==
  IF i < 1 THEN s
  ELSE IF VersionAt(s, i) THEN SubSeq(s, 1, i - 1)
  ELSE SubFromRight(s, i - 1)

get_base_name_rightmost(app_name) == SubFromRight(app_name, Len(app_name))

get_base_name(app_name) == SubFrom(app_name, 1)

\* ------------------------------------------------------------ input texts

nA == << "a" >>
nB == << "b" >>
nC == << "c" >>
nD == << "d" >>
nX == << "x" >>
nAv == << "a", "-", "1", ".", "0", ".", "0" >>
nNone == << "n", "o", "n", "e", "x", "i", "s", "t", "e", "n", "t", "-", "a", "p", "p" >>
NA == << "N", "/", "A" >>
Bar == << "|" >>

\* The lines a file is made of: plain records, a record that repeats an
\* identifier, versioned identifiers, a line with no "|", a blank line,
\* padded fields, an empty list item, an unresolvable reference.
Lines ==
  { nA \o Bar \o NA,                                  \* a|N/A
    nB \o Bar \o nA,                                  \* b|a
    nC \o Bar \o nA \o << "," >> \o nB,               \* c|a,b
    nB \o Bar \o NA,                                  \* b|N/A
    nAv \o Bar,                                       \* a-1.0.0|
    nX,                                               \* x
    nX \o Bar \o nNone,                               \* x|nonexistent-app
    << " ", "\n" >>,                                  \* blank
    << " " >> \o nD \o << " ", "|", "\n" >>,          \* " d |"
    nAv \o Bar \o << " " >> \o nA \o << " ", ",", " ", "\n" >>,  \* a-1.0.0| a ,
    nB \o Bar \o nC,                                  \* b|c
    nC \o Bar \o nAv \o Bar \o nX }                   \* c|a-1.0.0|x

\* The files: every sequence of at most MaxRecords lines.
Files == UNION { [1..n -> Lines] : n \in 0..MaxRecords }

\* ------------------------------------------------------------------- state

VARIABLES
  file,               \* the lines of file_path, in order
  pc,                 \* where the program is
  idx,                \* the next line of the file (1-based)
  apps,               \* dict app_name -> deps, in insertion order
  dependents,         \* parse_clusterapps' defaultdict(set)
  dependents_sorted,  \* the dict of sorted lists it returns
  lines,              \* create_block_diagram's output lines
  roots,              \* find_roots(apps)
  processed,          \* the processed set
  root_idx,           \* index of the root in turn (0-based, as enumerate)
  queue,              \* the deque of the root in turn
  chain_apps,         \* the chain of the root in turn
  chains,             \* history: chain_apps of every root done so far
  enqueued,           \* history: what entered the queue of the root in turn
  remaining,          \* sorted(remaining), once computed
  run,                \* 1 in the first run, 2 in a repeated one
  prev_lines,         \* the output of the first run, in a repeated one
  name_in,            \* a function on its own: its app_name argument
  base_out,           \* get_base_name on its own: its result, once called
  is_root_in,         \* the box of draw_app_block on its own: is_root
  box_out             \* the box of draw_app_block on its own: its three lines

vars ==
  << file, pc, idx, apps, dependents, dependents_sorted, lines, roots,
     processed, root_idx, queue, chain_apps, chains, enqueued, remaining, run,
     prev_lines, name_in, base_out, is_root_in, box_out >>

\* What the diagram program leaves alone.
NameVars == << name_in, base_out, is_root_in, box_out >>

\* ------------------------------------------------------------------- dicts

\* A dict is the sequence of its items [k, v] in insertion order.
DictKeys(d) == [i \in 1..Len(d) |-> d[i].k]

DictHas(d, key) == \E i \in 1..Len(d) : d[i].k = key

DictGet(d, key) == d[CHOOSE i \in 1..Len(d) : d[i].k = key].v

\* d[key] = val: a new key goes last, an old key keeps its place.
DictSet(d, key, val) ==
  IF DictHas(d, key)
  THEN [i \in 1..Len(d) |-> IF d[i].k = key THEN [k |-> key, v |-> val] ELSE d[i]]
  ELSE Append(d, [k |-> key, v |-> val])

\* apps.get(app_name, [])
AppsGet(a, app_name) == IF DictHas(a, app_name) THEN DictGet(a, app_name) ELSE << >>

\* dependents.get(app, []) on the returned dict
ChildrenOf(ds, app) == IF app \in DOMAIN ds THEN ds[app] ELSE << >>

Range(s) == {s[i] : i \in 1..Len(s)}

\* The orders in which iterating a set can yield its elements.
Enumerations(S) ==
  {e \in [1..Cardinality(S) -> S] : \A i, j \in DOMAIN e : i # j => e[i] # e[j]}

\* ------------------------------------------------------------------ sorted

\* Insert x into the sorted sequence s.
RECURSIVE Insert(_, _)
Insert(s, x) ==
  IF s = << >> THEN << x >>
  ELSE IF StrLess(x, Head(s)) THEN << x >> \o s
  ELSE << Head(s) >> \o Insert(Tail(s), x)

RECURSIVE SortFrom(_, _)
SortFrom(s, acc) == IF s = << >> THEN acc ELSE SortFrom(Tail(s), Insert(acc, Head(s)))

\* A slip: the iteration order is kept as it came.
sorted_unsorted(s) == s

\* sorted(s)
sorted(s) == SortFrom(s, << >>)

\* --------------------------------------------------------- parse_clusterapps

\* line.strip()
LineOf(i) == Strip(file[i])

\* line.split('|')
PartsOf(i) == Split(LineOf(i), "|")

\* parts[0].strip() and parts[1].strip()
AppNameOf(i) == Strip(PartsOf(i)[1])

DepsStrOf(i) == Strip(PartsOf(i)[2])

\* [d.strip() for d in deps_str.split(',') if d.strip()]
RECURSIVE StripNonEmpty(_)
StripNonEmpty(ps) ==
  IF ps = << >> THEN << >>
  ELSE (IF Strip(Head(ps)) = << >> THEN << >> ELSE << Strip(Head(ps)) >>)
       \o StripNonEmpty(Tail(ps))

\* The deps of a record: none when the text is empty or "N/A".
DepsOf(deps_str) ==
  IF deps_str # << >> /\ deps_str # NA
  THEN StripNonEmpty(Split(deps_str, ","))
  ELSE << >>

\* A slip: only the raw name is compared, the base name is not.
matches_raw_only(existing_app, dep) == existing_app = dep

\* if base_name == dep or existing_app == dep
Matches(existing_app, dep) == get_base_name(existing_app) = dep \/ existing_app = dep

\* The scan of apps.keys() for one dep, from key i on: the first key that
\* matches gets the child and the scan breaks.
RECURSIVE ScanKeys(_, _, _)
ScanKeys(keys, i, dep) ==
  IF i > Len(keys) THEN {}
  ELSE IF Matches(keys[i], dep) THEN {keys[i]}
  ELSE ScanKeys(keys, i + 1, dep)

\* A slip: no break, every matching key gets the child.
resolve_all(keys, dep) == {keys[i] : i \in {j \in 1..Len(keys) : Matches(keys[j], dep)}}

\* A slip: the app in turn is registered only after its deps are resolved.
resolve_earlier(keys, dep) == ScanKeys(SubSeq(keys, 1, Len(keys) - 1), 1, dep)

\* The keys whose children set gets app_name for one dep.
resolve(keys, dep) == ScanKeys(keys, 1, dep)

\* for dep in deps: ... dependents[existing_app].add(app_name)
RECURSIVE AddDependents(_, _, _, _)
AddDependents(dd, keys, deps, app_name) ==
  IF deps = << >> THEN dd
  ELSE LET hit == resolve(keys, Head(deps))
           dom == DOMAIN dd \cup hit
           nxt == [e \in dom |->
                     (IF e \in DOMAIN dd THEN dd[e] ELSE {})
                     \cup (IF e \in hit THEN {app_name} ELSE {})]
       IN AddDependents(nxt, keys, Tail(deps), app_name)

\* A slip: a reference that resolves to no key is dropped from the parents.
register_resolved(a, app_name, deps) ==
  DictSet(a, app_name,
          SelectSeq(deps, LAMBDA d : ScanKeys(DictKeys(DictSet(a, app_name, << >>)), 1, d) # {}))

\* apps[app_name] = [] and, with deps, apps[app_name] = deps
register(a, app_name, deps) == DictSet(a, app_name, deps)

\* if len(parts) < 2: continue
short_line(parts) == Len(parts) < 2

ParseVars == << lines, roots, processed, root_idx, queue, chain_apps, chains, enqueued,
                remaining, run, prev_lines, dependents_sorted, file >>

\* A blank line is skipped.
ParseBlank ==
  /\ pc = "parse"
  /\ UNCHANGED NameVars
  /\ idx <= Len(file)
  /\ LineOf(idx) = << >>
  /\ idx' = idx + 1
  /\ UNCHANGED << pc, apps, dependents >>
  /\ UNCHANGED ParseVars

\* A line with fewer than two parts is skipped.
ParseShort ==
  /\ pc = "parse"
  /\ UNCHANGED NameVars
  /\ idx <= Len(file)
  /\ LineOf(idx) # << >>
  /\ short_line(PartsOf(idx))
  /\ idx' = idx + 1
  /\ UNCHANGED << pc, apps, dependents >>
  /\ UNCHANGED ParseVars

\* A record: the identifier is registered, then its deps are resolved
\* against the keys registered so far, itself included.
ParseRecord ==
  /\ pc = "parse"
  /\ UNCHANGED NameVars
  /\ idx <= Len(file)
  /\ LineOf(idx) # << >>
  /\ ~short_line(PartsOf(idx))
  /\ LET parts    == PartsOf(idx)
         app_name == Strip(parts[1])
         deps_str == IF Len(parts) > 1 THEN Strip(parts[2]) ELSE << >>
         deps     == DepsOf(deps_str)
         apps1    == register(apps, app_name, deps)
     IN /\ apps' = apps1
        /\ dependents' = AddDependents(dependents, DictKeys(apps1), deps, app_name)
  /\ idx' = idx + 1
  /\ UNCHANGED pc
  /\ UNCHANGED ParseVars

\* dependents = {k: sorted(v) for k, v in dependents.items()}; return.
\* Each set is iterated in some order and sorted.
ParseReturn ==
  /\ pc = "parse"
  /\ UNCHANGED NameVars
  /\ idx > Len(file)
  /\ \E order \in [DOMAIN dependents -> UNION {Enumerations(dependents[e]) : e \in DOMAIN dependents}] :
       /\ \A e \in DOMAIN dependents : order[e] \in Enumerations(dependents[e])
       /\ dependents_sorted' = [e \in DOMAIN dependents |-> sorted(order[e])]
  /\ pc' = "diagram"
  /\ UNCHANGED << file, idx, apps, dependents, lines, roots, processed, root_idx,
                  queue, chain_apps, chains, enqueued, remaining, run, prev_lines >>

\* ---------------------------------------------------------------- find_roots

\* [app for app, deps in apps.items() if not deps], in dict order
RECURSIVE NoDeps(_)
NoDeps(a) ==
  IF a = << >> THEN << >>
  ELSE (IF Head(a).v = << >> THEN << Head(a).k >> ELSE << >>) \o NoDeps(Tail(a))

find_roots(a) == sorted(NoDeps(a))

\* ------------------------------------------------------------ draw_app_block

\* d[:30] of a parent on the "depends on" line
DepDisplayLen == 30

\* app_name[:60]
AppDisplayLen == 60

\* child[:55]
ChildDisplayLen == 55

\* width = max(len(app_display) + 4, 50)
BoxPadding == 4

MinBoxWidth == 50

\* " " * (width - len(app_display) - 8) on a root's line
RootPadding == 8

\* "-" * 80, the separator between sections
SeparatorWidth == 80

\* ch * n; nothing when n is not positive.
Rep(ch, n) == [i \in 1..n |-> ch]

Max(a, b) == IF a >= b THEN a ELSE b

\* sep.join(parts)
RECURSIVE Join(_, _)
Join(parts, sep) ==
  IF parts = << >> THEN << >>
  ELSE IF Len(parts) = 1 THEN Head(parts)
  ELSE Head(parts) \o sep \o Join(Tail(parts), sep)

\* str(n) of a natural number
Digits == << "0", "1", "2", "3", "4", "5", "6", "7", "8", "9" >>

RECURSIVE Decimal(_)
Decimal(n) ==
  IF n < 10 THEN << Digits[n + 1] >> ELSE Decimal(n \div 10) \o << Digits[(n % 10) + 1] >>

\* The lines of the parents of a block.
ParentLines(deps) ==
  IF deps # << >>
  THEN << << "    ", "BOX_DR", "BOX_H", " Parents (depends on): " >>
            \o Join([i \in 1..Len(deps) |-> Take(deps[i], DepDisplayLen)], << ",", " " >>),
          << "    ", "BOX_V" >>,
          << "    ", "ARROW_D" >> >>
  ELSE << >>

\* The three lines of the box.
BoxLines(app_name, is_root) ==
  LET app_display == Take(app_name, AppDisplayLen)
      width       == Max(Len(app_display) + BoxPadding, MinBoxWidth)
      top         == << "BOX_DR", "BOX_H" >> \o Rep("BOX_H", width - 4) \o << "BOX_H", "BOX_DL" >>
      bottom      == << "BOX_UR", "BOX_H" >> \o Rep("BOX_H", width - 4) \o << "BOX_H", "BOX_UL" >>
      content     ==
        IF is_root
        THEN << "BOX_V", " " >> \o app_display
               \o << " ", "[", "R", "O", "O", "T", "]" >>
               \o Rep(" ", width - Len(app_display) - RootPadding) \o << "BOX_V" >>
        ELSE << "BOX_V", " " >> \o app_display
               \o Rep(" ", width - Len(app_display) - 4) \o << "BOX_V" >>
  IN << top, content, bottom >>

\* The lines of the children of a block.
ChildLines(children) ==
  IF children # << >>
  THEN << << "    ", "BOX_V" >>,
          << "    ", "ARROW_D" >>,
          << "    ", "BOX_UR", "BOX_H", " Children (used by):" >> >>
       \o [i \in 1..Len(children) |->
             << "      ", (IF i < Len(children) THEN "BOX_VR" ELSE "BOX_UR"), "BOX_H", " " >>
               \o Take(children[i], ChildDisplayLen)]
  ELSE << << "    ", "BOX_UR", "BOX_H", " (no dependents)" >> >>

draw_app_block(app_name, a, ds) ==
  LET deps     == AppsGet(a, app_name)
      is_root  == Len(deps) = 0
      children == ChildrenOf(ds, app_name)
  IN ParentLines(deps) \o BoxLines(app_name, is_root) \o ChildLines(children)

\* for app in apps: lines.extend(draw_app_block(app)); lines.append("")
RECURSIVE DrawAll(_, _, _)
DrawAll(names, a, ds) ==
  IF names = << >> THEN << >>
  ELSE draw_app_block(Head(names), a, ds) \o << << >> >> \o DrawAll(Tail(names), a, ds)

\* ------------------------------------------------------ create_block_diagram

Preamble ==
  << << "# ClusterApp Dependency Block Diagram" >>,
     << >>,
     << "This diagram shows each ClusterApp once as a block with its dependencies (parents) and dependents (children)." >>,
     << "Root nodes (apps with no dependencies) are shown at the top of each chain." >>,
     << >>,
     << "## Block Diagram" >>,
     << >>,
     << "FENCE" >>,
     << >> >>

Separator == << << >>, Rep("BOX_H", SeparatorWidth), << >> >>

RootHeader(i, root) == << "### Root Chain " >> \o Decimal(i + 1) \o << ":", " " >> \o root

OrphanHeader == << "### Orphaned Apps (not connected to any root)" >>

IsRootHeader(l) == l # << >> /\ l[1] = "### Root Chain "

\* Lines 69-81: the preamble, the roots, the empty processed set.
DiagramStart ==
  /\ pc = "diagram"
  /\ UNCHANGED NameVars
  /\ lines' = Preamble
  /\ roots' = find_roots(apps)
  /\ processed' = {}
  /\ root_idx' = 0
  /\ pc' = "roots"
  /\ UNCHANGED << file, idx, apps, dependents, dependents_sorted, queue,
                  chain_apps, chains, enqueued, remaining, run, prev_lines >>

\* Lines 127-138: the header of the root in turn, and its queue.
RootBegin ==
  /\ pc = "roots"
  /\ UNCHANGED NameVars
  /\ root_idx < Len(roots)
  /\ LET root == roots[root_idx + 1]
     IN /\ lines' = lines \o (IF root_idx > 0 THEN Separator ELSE << >>)
                          \o << RootHeader(root_idx, root), << >> >>
        /\ queue' = << root >>
        /\ enqueued' = << root >>
  /\ chain_apps' = << >>
  /\ pc' = "bfs"
  /\ UNCHANGED << file, idx, apps, dependents, dependents_sorted, roots,
                  processed, root_idx, chains, remaining, run, prev_lines >>

\* A slip: the children are not enqueued, so a chain is its root alone.
enqueue_none(q, children, done) == q

\* A slip: the children are enqueued without the two membership tests.
enqueue_unchecked(q, children, done) == q \o children

\* for child in children: if child not in processed and child not in queue
RECURSIVE Enqueue(_, _, _)
Enqueue(q, children, done) ==
  IF children = << >> THEN q
  ELSE LET child == Head(children)
       IN Enqueue(IF child \notin done /\ child \notin Range(q) THEN Append(q, child) ELSE q,
                  Tail(children), done)

\* A slip: the newest entry is taken, which makes the walk depth-first.
pop_right(q) == [app |-> q[Len(q)], rest |-> SubSeq(q, 1, Len(q) - 1)]

\* queue.popleft()
popleft(q) == [app |-> Head(q), rest |-> Tail(q)]

\* Lines 141-143: the app taken from the queue was processed already.
BfsSkip ==
  /\ pc = "bfs"
  /\ UNCHANGED NameVars
  /\ queue # << >>
  /\ popleft(queue).app \in processed
  /\ queue' = popleft(queue).rest
  /\ UNCHANGED << pc, file, idx, apps, dependents, dependents_sorted, lines, roots,
                  processed, root_idx, chain_apps, chains, enqueued, remaining, run, prev_lines >>

\* A slip: an app is not marked as processed.
mark_none(done, app) == done

\* processed.add(app)
mark(done, app) == done \cup {app}

\* A slip: the lookup is an index into a defaultdict, which adds the key it
\* does not find, with no children.
get_adds_key(ds, app) ==
  [e \in DOMAIN ds \cup {app} |-> IF e \in DOMAIN ds THEN ds[e] ELSE << >>]

\* The dict after dependents.get(app, []): get adds no key.
after_get(ds, app) == ds

\* The dict after a draw_app_block, and so a get, for each of names.
RECURSIVE AfterGets(_, _)
AfterGets(ds, names) ==
  IF names = << >> THEN ds ELSE AfterGets(after_get(ds, Head(names)), Tail(names))

\* Lines 141-152: the app joins the chain and its children the queue.
BfsVisit ==
  /\ pc = "bfs"
  /\ UNCHANGED NameVars
  /\ queue # << >>
  /\ popleft(queue).app \notin processed
  /\ LET app == popleft(queue).app
     IN /\ chain_apps' = Append(chain_apps, app)
        /\ processed' = mark(processed, app)
        /\ queue' = Enqueue(popleft(queue).rest, ChildrenOf(dependents_sorted, app), processed')
        /\ dependents_sorted' = after_get(dependents_sorted, app)
        /\ enqueued' = enqueued \o SubSeq(queue', Len(popleft(queue).rest) + 1, Len(queue'))
  /\ UNCHANGED << pc, file, idx, apps, dependents, lines, roots,
                  root_idx, chains, remaining, run, prev_lines >>

\* Lines 154-158: the queue is empty, the chain is drawn.
ChainDraw ==
  /\ pc = "bfs"
  /\ UNCHANGED NameVars
  /\ queue = << >>
  /\ lines' = lines \o DrawAll(chain_apps, apps, dependents_sorted)
  /\ chains' = Append(chains, chain_apps)
  /\ root_idx' = root_idx + 1
  /\ pc' = "roots"
  /\ dependents_sorted' = AfterGets(dependents_sorted, chain_apps)
  /\ UNCHANGED << file, idx, apps, dependents, roots,
                  processed, queue, chain_apps, enqueued, remaining, run, prev_lines >>

\* Lines 160-176: the apps no chain holds, sorted, and the end.
Orphans ==
  /\ pc = "roots"
  /\ UNCHANGED NameVars
  /\ root_idx >= Len(roots)
  /\ LET rest == Range(DictKeys(apps)) \ processed
     IN \E order \in Enumerations(rest) :
          /\ remaining' = sorted(order)
          /\ lines' = lines
               \o (IF rest # {}
                   THEN Separator \o << OrphanHeader, << >> >>
                        \o DrawAll(remaining', apps, dependents_sorted)
                   ELSE << >>)
               \o << << "FENCE" >>, << >> >>
          /\ dependents_sorted' = AfterGets(dependents_sorted, remaining')
  /\ pc' = "done"
  /\ UNCHANGED << file, idx, apps, dependents, roots,
                  processed, root_idx, queue, chain_apps, chains, enqueued, run, prev_lines >>

\* The program is run a second time over the unchanged file; the output of
\* the first run is kept beside that of the second.
Rerun ==
  /\ pc = "done"
  /\ UNCHANGED NameVars
  /\ run = 1
  /\ run' = 2
  /\ prev_lines' = lines
  /\ pc' = "parse"
  /\ idx' = 1
  /\ apps' = << >>
  /\ dependents' = << >>
  /\ dependents_sorted' = << >>
  /\ lines' = << >>
  /\ roots' = << >>
  /\ processed' = {}
  /\ root_idx' = 0
  /\ queue' = << >>
  /\ chain_apps' = << >>
  /\ chains' = << >>
  /\ enqueued' = << >>
  /\ remaining' = << >>
  /\ UNCHANGED file

\* ------------------------------------------------------------ specification

Init ==
  /\ file \in Files
  /\ pc = "parse"
  /\ idx = 1
  /\ apps = << >>
  /\ dependents = << >>
  /\ dependents_sorted = << >>
  /\ lines = << >>
  /\ roots = << >>
  /\ processed = {}
  /\ root_idx = 0
  /\ queue = << >>
  /\ chain_apps = << >>
  /\ chains = << >>
  /\ enqueued = << >>
  /\ remaining = << >>
  /\ run = 1
  /\ prev_lines = << >>
  /\ name_in = << >>
  /\ base_out = << >>
  /\ is_root_in = FALSE
  /\ box_out = << >>

Next ==
  \/ ParseBlank
  \/ ParseShort
  \/ ParseRecord
  \/ ParseReturn
  \/ DiagramStart
  \/ RootBegin
  \/ BfsSkip
  \/ BfsVisit
  \/ ChainDraw
  \/ Orphans

Spec == Init /\ [][Next]_vars

NextTwice == Next \/ Rerun

SpecTwice == Init /\ [][NextTwice]_vars

\* -------------------------------------------------- get_base_name on its own

nCert == << "c", "e", "r", "t", "-", "m", "a", "n", "a", "g", "e", "r" >>
nCertV == nCert \o << "-", "1", ".", "1", "4", ".", "2" >>

\* The pieces identifiers are put together from.
Segs ==
  { nCert,
    << "a" >>,
    << "-" >>,
    << "1" >>,
    << "." >>,
    << "-", "1", ".", "2" >>,
    << "-", "1", ".", "0", ".", "0" >>,
    << "-", "1", ".", "1", "4", ".", "2" >> }

RECURSIVE Concat(_)
Concat(ss) == IF ss = << >> THEN << >> ELSE Head(ss) \o Concat(Tail(ss))

\* The identifiers: at most MaxSegs pieces in a row.
Names == {Concat(ss) : ss \in UNION {[1..n -> Segs] : n \in 0..MaxSegs}}

InitName ==
  /\ name_in \in Names
  /\ base_out = << >>
  /\ pc = "name"
  /\ file = << >>
  /\ idx = 1
  /\ apps = << >>
  /\ dependents = << >>
  /\ dependents_sorted = << >>
  /\ lines = << >>
  /\ roots = << >>
  /\ processed = {}
  /\ root_idx = 0
  /\ queue = << >>
  /\ chain_apps = << >>
  /\ chains = << >>
  /\ enqueued = << >>
  /\ remaining = << >>
  /\ run = 1
  /\ prev_lines = << >>
  /\ is_root_in = FALSE
  /\ box_out = << >>

\* base = get_base_name(app_name)
CallBaseName ==
  /\ pc = "name"
  /\ base_out' = get_base_name(name_in)
  /\ pc' = "named"
  /\ UNCHANGED << file, idx, apps, dependents, dependents_sorted, lines, roots,
                  processed, root_idx, queue, chain_apps, chains, enqueued, remaining, run,
                  prev_lines, name_in, is_root_in, box_out >>

NextName == CallBaseName

SpecName == InitName /\ [][NextName]_vars

\* ------------------------------------------------- the file, read as records

\* The lines that are records: not blank, with an identifier and a "|".
IsRecord(i) == LineOf(i) # << >> /\ Len(PartsOf(i)) >= 2

RecIdx == {i \in 1..Len(file) : IsRecord(i)}

RecName(i) == AppNameOf(i)

RecDeps(i) == DepsOf(DepsStrOf(i))

\* The registered identifiers.
Ids == {RecName(i) : i \in RecIdx}

\* The record that registers x first.
FirstSeen(x) == CHOOSE i \in RecIdx : RecName(i) = x /\ \A j \in RecIdx : RecName(j) = x => i <= j

\* The identifiers registered once record i is read, itself included.
RegisteredBy(i) == {RecName(j) : j \in {k \in RecIdx : k <= i}}

\* Reference r names identifier p: by its raw name or by its base name.
Refers(p, r) == r = p \/ r = get_base_name(p)

\* p is the earliest-registered identifier that r names when record i is read.
EarliestMatch(p, r, i) ==
  /\ p \in RegisteredBy(i)
  /\ Refers(p, r)
  /\ \A q \in RegisteredBy(i) : Refers(q, r) => FirstSeen(p) <= FirstSeen(q)

\* The children and parents of the graph parse_clusterapps returns.
Children(p) == Range(ChildrenOf(dependents_sorted, p))

Parents(c) == Range(AppsGet(apps, c))

\* parse_clusterapps has just returned its graph.
Parsed == pc = "diagram"

Done == pc = "done"

\* Every identifier the diagram shows, chain after chain, then the orphans.
Shown == Concat(chains) \o remaining

NoRepeats(s) == \A i, j \in 1..Len(s) : i # j => s[i] # s[j]

\* ---------------------------------------------------------------------- C1

\* C1: once create_block_diagram has run, the root chains and the orphan
\* remainder partition the registered identifiers: every registered
\* identifier is shown, none is shown twice (in one chain, in two chains, or
\* in a chain and the remainder), and nothing unregistered is shown.
C1_Partition ==
  Done => /\ Range(Shown) = Ids
          /\ Range(Shown) = Range(DictKeys(apps))
          /\ NoRepeats(Shown)

\* Two non-empty chains and a non-empty remainder.
C1_Witness ==
  /\ Done
  /\ Len(chains) >= 2
  /\ \A k \in 1..Len(chains) : chains[k] # << >>
  /\ remaining # << >>

\* ---------------------------------------------------------------------- C2

\* C2 as stated: the children map is the inverse of the final parents map
\* under base-name resolution: c is a child of p exactly when c's final
\* parent list holds a reference that is p or p's base name.
C2_ExactInverse ==
  Parsed => \A c \in Ids : \A p \in Ids :
              c \in Children(p) <=> \E r \in Parents(c) : Refers(p, r)

\* C2, amended: c is a child of p exactly when some record of c carries a
\* reference for which p is the earliest-registered identifier, among those
\* registered up to and including that record, that the reference names by
\* raw or base name; and the children map holds registered identifiers only.
C2_InverseOfFirstMatch ==
  Parsed =>
    /\ DOMAIN dependents_sorted \subseteq Ids
    /\ \A p \in Ids : Children(p) \subseteq Ids
    /\ \A c \in Ids : \A p \in Ids :
         c \in Children(p) <=>
           \E i \in RecIdx : /\ RecName(i) = c
                             /\ \E r \in Range(RecDeps(i)) : EarliestMatch(p, r, i)

\* A child whose final parent list no longer names its parent (the
\* identifier was repeated), and a reference that names two identifiers of
\* which only the earlier got the child.
C2_Witness ==
  /\ Parsed
  /\ \/ \E c \in Ids : \E p \in Ids :
          c \in Children(p) /\ ~ \E r \in Parents(c) : Refers(p, r)
     \/ \E c \in Ids : \E p \in Ids : \E q \in Ids :
          /\ p # q
          /\ c \in Children(p)
          /\ c \notin Children(q)
          /\ \E r \in Parents(c) : Refers(p, r) /\ Refers(q, r)

\* ---------------------------------------------------------------------- C3

\* The declared dependencies of identifier x: the identifiers its final
\* references name.
DependsOn(x) == {y \in Ids : \E r \in Parents(x) : Refers(y, r)}

\* The identifiers x leads to by following declared dependencies, x included.
RECURSIVE Ancestors(_, _)
Ancestors(S, n) ==
  IF n = 0 THEN S
  ELSE Ancestors(S \cup UNION {DependsOn(y) : y \in S}, n - 1)

\* The identifiers with no parents.
ZeroDeps == {x \in Ids : Parents(x) = {}}

\* The dependency chain of root r: what leads to r.
ChainOf(r) == {x \in Ids : r \in Ancestors({x}, Cardinality(Ids))}

\* The file is two disjoint dependency chains: no identifier repeats, there
\* are two roots, every identifier is in the chain of exactly one of them,
\* and each reference of an identifier names identifiers of its own chain,
\* and at least one.
TwoDisjointChains ==
  /\ \A i \in RecIdx : \A j \in RecIdx : RecName(i) = RecName(j) => i = j
  /\ Cardinality(ZeroDeps) = 2
  /\ \A x \in Ids : Cardinality({r \in ZeroDeps : x \in ChainOf(r)}) = 1
  /\ \A r \in ZeroDeps : \A x \in ChainOf(r) : \A d \in Parents(x) :
        /\ \E y \in Ids : Refers(y, d)
        /\ \A y \in Ids : Refers(y, d) => y \in ChainOf(r)

\* Every reference of a record names an identifier that an earlier record
\* registered.
DepsFirst ==
  \A i \in RecIdx : \A d \in Range(RecDeps(i)) :
    \E j \in RecIdx : j < i /\ Refers(RecName(j), d)

\* Two root chains, each holding exactly its own identifiers, no orphans.
TwoSeparateChains ==
  /\ Len(chains) = 2
  /\ {Range(chains[1]), Range(chains[2])} = {ChainOf(r) : r \in ZeroDeps}
  /\ remaining = << >>

\* C3 as stated: two disjoint dependency chains, in whatever order their
\* records come, give two root chains, each with exactly the identifiers of
\* its own chain, and an empty remainder.
C3_AnyOrder == (Done /\ TwoDisjointChains) => TwoSeparateChains

\* C3, amended: two disjoint dependency chains whose records come
\* dependencies first (every reference names an identifier registered by an
\* earlier record) give two root chains, each with exactly the identifiers
\* of its own chain, and an empty remainder.
C3_DepsFirst == (Done /\ TwoDisjointChains /\ DepsFirst) => TwoSeparateChains

\* Two disjoint chains, dependencies first, one of them longer than its root.
C3_Witness ==
  /\ Done
  /\ TwoDisjointChains
  /\ DepsFirst
  /\ TwoSeparateChains
  /\ \E k \in 1..2 : Len(chains[k]) >= 2

\* ---------------------------------------------------------------------- C4

\* The lines that hold an identifier and no "|".
BareIdx == {i \in 1..Len(file) : LineOf(i) # << >> /\ Len(PartsOf(i)) = 1}

\* C4: a non-empty line with an identifier and no "|" is not rejected: its
\* identifier is registered with an empty parent list and is among the roots.
C4_BareLineRegistered ==
  pc = "roots" =>
    \A i \in BareIdx :
      /\ DictHas(apps, LineOf(i))
      /\ AppsGet(apps, LineOf(i)) = << >>
      /\ LineOf(i) \in Range(roots)

\* ---------------------------------------------------------------------- C5

\* Reference r names no registered identifier.
Unresolved(r) == \A y \in Range(DictKeys(apps)) : ~Refers(y, r)

\* The first output line of the orphan section, 0 when there is none.
OrphanAt ==
  IF \E i \in 1..Len(lines) : lines[i] = OrphanHeader
  THEN CHOOSE i \in 1..Len(lines) : lines[i] = OrphanHeader
  ELSE 0

\* The "depends on" line of an identifier with parents deps, each shown by
\* its first DepDisplayLen characters.
DependsOnLine(deps) ==
  << "    ", "BOX_DR", "BOX_H", " Parents (depends on): " >>
    \o Join([i \in 1..Len(deps) |-> Take(deps[i], DepDisplayLen)], << ",", " " >>)

\* The content line of the box of a non-root x.
BoxLine(x) ==
  << "BOX_V", " " >> \o Take(x, AppDisplayLen)
    \o Rep(" ", Max(Len(Take(x, AppDisplayLen)) + BoxPadding, MinBoxWidth)
                  - Len(Take(x, AppDisplayLen)) - BoxPadding)
    \o << "BOX_V" >>

\* C5: an unresolvable reference is no error.  While the file is read, the
\* record just read has its references as its parent list, and every child
\* edge there is comes from a reference that names the parent: a reference
\* that names no registered identifier adds none.  At the end, an identifier
\* whose parent list holds such a reference is no root, and when no chain
\* holds it, it is in the orphan section under a "depends on" line that
\* lists its references.  The file of the one record x|nonexistent-app gives
\* parents [nonexistent-app], no root, no chain, and x as the only orphan.
C5_UnresolvedReference ==
  /\ (pc = "parse" /\ idx > 1 /\ IsRecord(idx - 1)) =>
       /\ AppsGet(apps, RecName(idx - 1)) = RecDeps(idx - 1)
       /\ \A p \in DOMAIN dependents : \A c \in dependents[p] :
            \E j \in RecIdx : /\ j < idx
                              /\ RecName(j) = c
                              /\ \E r \in Range(RecDeps(j)) : Refers(p, r)
       /\ (\A r \in Range(RecDeps(idx - 1)) : Unresolved(r)) =>
            \A p \in DOMAIN dependents :
              RecName(idx - 1) \in dependents[p] =>
                \E j \in RecIdx : j < idx - 1 /\ RecName(j) = RecName(idx - 1)
  /\ Done =>
       \A x \in Range(DictKeys(apps)) :
         (\E r \in Parents(x) : Unresolved(r)) =>
           /\ x \notin Range(roots)
           /\ x \notin Range(Concat(chains)) =>
                /\ x \in Range(remaining)
                /\ OrphanAt > 0
                /\ \E i \in (OrphanAt + 1)..(Len(lines) - 4) :
                     /\ lines[i] = DependsOnLine(AppsGet(apps, x))
                     /\ lines[i + 4] = BoxLine(x)
  /\ (Done /\ file = << nX \o Bar \o nNone >>) =>
       /\ apps = << [k |-> nX, v |-> << nNone >>] >>
       /\ dependents_sorted = << >>
       /\ roots = << >>
       /\ chains = << >>
       /\ remaining = << nX >>

\* An identifier with an unresolvable reference that ends among the orphans,
\* in a file that has roots and chains as well.
C5_Witness ==
  /\ Done
  /\ roots # << >>
  /\ \E x \in Range(remaining) : \E r \in Parents(x) : Unresolved(r)

\* ---------------------------------------------------------------------- C6

\* C6: a second run of parse_clusterapps and create_block_diagram over the
\* same file gives the output of the first, line for line, whatever order
\* the children sets and the remaining set are iterated in.
C6_SameOutputTwice == (run = 2 /\ Done) => lines = prev_lines

\* A second run that ended, over a graph with a set of two or more children
\* and two or more orphans to put in order.
C6_Witness ==
  /\ run = 2
  /\ Done
  /\ \/ \E p \in DOMAIN dependents : Cardinality(dependents[p]) >= 2
     \/ Len(remaining) >= 2

\* ---------------------------------------------------------------------- C7

\* The identifiers at breadth-first depth n from the set S (depth 0), over
\* the children lists, given the ones seen at smaller depths.
RECURSIVE LevelFrom(_, _, _)
LevelFrom(S, seen, n) ==
  IF n = 0 THEN S
  ELSE LevelFrom(UNION {Children(y) : y \in S} \ (seen \cup S), seen \cup S, n - 1)

\* The breadth-first depth of x from root r; x is reachable from r.
DepthFrom(r, x) ==
  CHOOSE n \in 0..Cardinality(Ids) : x \in LevelFrom({r}, {}, n)

\* The position of x in the sequence s.
IndexIn(s, x) == CHOOSE i \in 1..Len(s) : s[i] = x

\* The first member of chain ch whose children list holds member j.
Discoverer(ch, j) ==
  CHOOSE i \in 1..(j - 1) :
    /\ ch[j] \in Children(ch[i])
    /\ \A h \in 1..(i - 1) : ch[j] \notin Children(ch[h])

\* The chain ch of root r is in breadth-first order.
BreadthFirst(ch, r) ==
  /\ ch[1] = r
  /\ \A j \in 2..Len(ch) : \E i \in 1..(j - 1) : ch[j] \in Children(ch[i])
  /\ \A i \in 1..Len(ch) : \A j \in 1..Len(ch) :
       i < j => DepthFrom(r, ch[i]) <= DepthFrom(r, ch[j])
  /\ \A j \in 2..Len(ch) : \A k \in 2..Len(ch) :
       j < k =>
         /\ Discoverer(ch, j) <= Discoverer(ch, k)
         /\ Discoverer(ch, j) = Discoverer(ch, k) =>
              LET sibs == ChildrenOf(dependents_sorted, ch[Discoverer(ch, j)])
              IN /\ IndexIn(sibs, ch[j]) < IndexIn(sibs, ch[k])
                 /\ StrLess(ch[j], ch[k])

\* C7: every chain is in breadth-first order from its root over the
\* children lists: the root comes first, every other member comes after a
\* member whose children list holds it, a member of smaller depth comes
\* before a deeper one, and siblings come in the sorted order of the
\* children list.  The file a|N/A, b|a, c|a,b gives the root a, the children
\* b, c of a, the child c of b, none of c, the one chain a, b, c and no
\* orphan.
C7_BreadthFirstChains ==
  /\ Done =>
       \A k \in 1..Len(chains) :
         chains[k] # << >> => BreadthFirst(chains[k], roots[k])
  /\ (Done /\ file = << nA \o Bar \o NA, nB \o Bar \o nA,
                        nC \o Bar \o nA \o << "," >> \o nB >>) =>
       /\ roots = << nA >>
       /\ ChildrenOf(dependents_sorted, nA) = << nB, nC >>
       /\ ChildrenOf(dependents_sorted, nB) = << nC >>
       /\ ChildrenOf(dependents_sorted, nC) = << >>
       /\ chains = << << nA, nB, nC >> >>
       /\ remaining = << >>

\* A chain whose root has two children, one of them a child of the other.
C7_Witness ==
  /\ Done
  /\ \E k \in 1..Len(chains) :
       /\ Len(chains[k]) >= 3
       /\ Cardinality(Children(chains[k][1])) >= 2
       /\ chains[k][3] \in Children(chains[k][2])

\* ---------------------------------------------------------------------- C8

\* s[i..e] is a dash, digits, a dot, digits, a dot, digits.
IsVersion(s, i, e) ==
  /\ s[i] = "-"
  /\ \E j \in (i + 2)..(e - 3) : \E k \in (j + 2)..(e - 1) :
       /\ s[j] = "."
       /\ s[k] = "."
       /\ \A h \in ((i + 1)..(j - 1)) \cup ((j + 1)..(k - 1)) \cup ((k + 1)..e) :
            IsDigit(s[h])

\* The places of s where such a substring starts.
VersionStarts(s) ==
  {i \in 1..Len(s) : \E e \in i..Len(s) : IsVersion(s, i, e)}

\* C8: get_base_name cuts the identifier just before its leftmost substring
\* of the form dash, digits, dot, digits, dot, digits, and drops all that
\* follows; an identifier with no such substring comes back unchanged.
\* cert-manager-1.14.2 gives cert-manager, and cert-manager gives itself.
C8_BaseName ==
  pc = "named" =>
    /\ VersionStarts(name_in) = {} => base_out = name_in
    /\ VersionStarts(name_in) # {} =>
         \E i \in VersionStarts(name_in) :
           /\ \A j \in VersionStarts(name_in) : i <= j
           /\ base_out = SubSeq(name_in, 1, i - 1)
    /\ name_in = nCertV => base_out = nCert
    /\ name_in = nCert => base_out = nCert

\* An identifier with two version substrings, cut at the first.
C8_Witness ==
  /\ pc = "named"
  /\ Cardinality(VersionStarts(name_in)) >= 2
  /\ Len(base_out) >= 1
  /\ Len(base_out) < Len(name_in)

\* ---------------------------------------------------------------------- C9

\* The children set of p while the file is read.
ChildSet(dd, p) == IF p \in DOMAIN dd THEN dd[p] ELSE {}

\* p is the earliest of keys that reference r names.
EarliestOf(keys, p, r) ==
  \E i \in 1..Len(keys) :
    /\ keys[i] = p
    /\ Refers(p, r)
    /\ \A j \in 1..(i - 1) : ~Refers(keys[j], r)

\* The identifiers of the records up to line n, each at its first record.
RECURSIVE RegistrationOrder(_)
RegistrationOrder(n) ==
  IF n = 0 THEN << >>
  ELSE LET before == RegistrationOrder(n - 1)
       IN IF IsRecord(n) /\ RecName(n) \notin Range(before)
          THEN Append(before, RecName(n))
          ELSE before

\* C9: reading a record resolves each of its references to the first match
\* in registration order.  The candidates are the identifiers registered by
\* the records read so far, the record itself included and no later one; the
\* record's identifier joins the children set of p exactly when p is the
\* earliest candidate that one of its references names by raw or base name,
\* and joins no other candidate's set; no other children set changes.
C9_FirstMatch ==
  [][ (pc = "parse" /\ idx' = idx + 1 /\ IsRecord(idx)) =>
        /\ DictKeys(apps') = RegistrationOrder(idx)
        /\ \A p \in Range(DictKeys(apps')) \cup DOMAIN dependents' :
             /\ p \in Range(DictKeys(apps'))
             /\ ChildSet(dependents', p) \ {RecName(idx)} = ChildSet(dependents, p) \ {RecName(idx)}
             /\ RecName(idx) \in ChildSet(dependents', p) <=>
                  \/ RecName(idx) \in ChildSet(dependents, p)
                  \/ \E r \in Range(RecDeps(idx)) : EarliestOf(DictKeys(apps'), p, r)
    ]_vars

\* A reference that names two registered identifiers, of which the earlier
\* has the child and the later has not.
C9_Witness ==
  /\ pc = "parse"
  /\ idx > 1
  /\ IsRecord(idx - 1)
  /\ \E p \in Range(DictKeys(apps)) : \E q \in Range(DictKeys(apps)) :
       /\ p # q
       /\ \E r \in Range(RecDeps(idx - 1)) : Refers(p, r) /\ Refers(q, r)
       /\ RecName(idx - 1) \in ChildSet(dependents, p)
       /\ RecName(idx - 1) \notin ChildSet(dependents, q)

\* --------------------------------------------------------------------- C10

\* The output lines that open a root chain section.
RootHeaders == {i \in 1..Len(lines) : IsRootHeader(lines[i])}

\* C10: a root that an earlier chain absorbed gets no chain and no "Root
\* Chain" section, so the output has as many root chain sections as there
\* are non-empty chains.
C10_NoSectionForAbsorbedRoot ==
  Done =>
    Cardinality(RootHeaders) = Cardinality({k \in 1..Len(chains) : chains[k] # << >>})

\* ----------------------------------------- the box of draw_app_block on its own

\* The identifiers: every length up to MaxNameLen, which passes the display
\* length and the least width.
BoxNames == {Rep("n", n) : n \in 0..MaxNameLen}

InitBox ==
  /\ name_in \in BoxNames
  /\ is_root_in \in BOOLEAN
  /\ box_out = << >>
  /\ base_out = << >>
  /\ pc = "box"
  /\ file = << >>
  /\ idx = 1
  /\ apps = << >>
  /\ dependents = << >>
  /\ dependents_sorted = << >>
  /\ lines = << >>
  /\ roots = << >>
  /\ processed = {}
  /\ root_idx = 0
  /\ queue = << >>
  /\ chain_apps = << >>
  /\ chains = << >>
  /\ enqueued = << >>
  /\ remaining = << >>
  /\ run = 1
  /\ prev_lines = << >>

\* Lines 101-110: the top border, the content line, the bottom border.
DrawBox ==
  /\ pc = "box"
  /\ box_out' = BoxLines(name_in, is_root_in)
  /\ pc' = "boxed"
  /\ UNCHANGED << file, idx, apps, dependents, dependents_sorted, lines, roots,
                  processed, root_idx, queue, chain_apps, chains, enqueued, remaining, run,
                  prev_lines, name_in, base_out, is_root_in >>

NextBox == DrawBox

SpecBox == InitBox /\ [][NextBox]_vars

\* --------------------------------------------------------------------- C11

\* The width of the box of an identifier: the display name and the padding,
\* and the least width at least.
BoxWidth(app_name) ==
  Max(MinBoxWidth, Len(Take(app_name, AppDisplayLen)) + BoxPadding)

\* The number of blanks asked for on the content line.
PaddingCount(app_name, is_root) ==
  BoxWidth(app_name) - Len(Take(app_name, AppDisplayLen))
    - (IF is_root THEN RootPadding ELSE BoxPadding)

\* C11: for every identifier length, root or not, the box has the width
\* W = max(50, len(display) + 4) of the identifier cut to 60 characters: the
\* top border, the content line (with " [ROOT]" for a root) and the bottom
\* border are W characters long each, and the padding count of the content
\* line is not negative.
C11_BoxWidth ==
  pc = "boxed" =>
    /\ Len(box_out[1]) = BoxWidth(name_in)
    /\ Len(box_out[2]) = BoxWidth(name_in)
    /\ Len(box_out[3]) = BoxWidth(name_in)
    /\ PaddingCount(name_in, is_root_in) >= 0

\* --------------------------------------------------------------------- C12

\* create_block_diagram is running.
Drawing == pc \in {"diagram", "roots", "bfs"}

\* C12: create_block_diagram leaves the graph as it got it: no step of it
\* changes the parents map or the children map, neither their keys nor the
\* content or order of a list, also when it looks up an identifier that has
\* no entry in the children map; the file and the parser's own state stay
\* as well.
C12_GraphUnchanged ==
  [][ Drawing =>
        /\ apps' = apps
        /\ dependents_sorted' = dependents_sorted
        /\ DOMAIN dependents_sorted' = DOMAIN dependents_sorted
        /\ dependents' = dependents
        /\ file' = file
        /\ idx' = idx
    ]_vars

\* The diagram is done over a graph with children, and has drawn an
\* identifier that has no entry in the children map.
C12_Witness ==
  /\ Done
  /\ DOMAIN dependents_sorted # {}
  /\ \E x \in Range(Shown) : x \notin DOMAIN dependents_sorted

\* --------------------------------------------------------------------- C13

\* The identifiers reached from the set S in at most n steps along the
\* children map, S included.
RECURSIVE Reach(_, _)
Reach(S, n) ==
  IF n = 0 THEN S
  ELSE Reach(S \cup UNION {Children(y) : y \in S}, n - 1)

\* The identifiers some root reaches through children edges.
Reachable == Reach(ZeroDeps, Cardinality(Ids))

InChains == Range(Concat(chains))

InRemainder == Range(remaining)

\* x is on a cycle of the children map.
OnChildrenCycle(x) == x \in Reach(Children(x), Cardinality(Ids))

\* x is on a cycle of declared dependencies that no zero-dependency
\* identifier enters: x leads back to itself, and to no root.
OnClosedDependencyCycle(x) ==
  /\ x \in Ancestors(DependsOn(x), Cardinality(Ids))
  /\ Ancestors({x}, Cardinality(Ids)) \cap ZeroDeps = {}

\* x has references, and none of them names a registered identifier.
OnlyUnresolved(x) == Parents(x) # {} /\ \A r \in Parents(x) : Unresolved(r)

\* C13 as stated: an identifier is in the orphan remainder exactly when no
\* root reaches it through the children map, every reachable identifier is
\* in a root chain, and every identifier on a dependency cycle with no
\* zero-dependency entry point, or with only unresolved references, is in
\* the remainder.
C13_OrphansAsStated ==
  Done =>
    /\ \A x \in Ids : x \in InRemainder <=> x \notin Reachable
    /\ \A x \in Ids : x \in Reachable => x \in InChains
    /\ \A x \in Ids : OnClosedDependencyCycle(x) => x \in InRemainder
    /\ \A x \in Ids : OnlyUnresolved(x) => x \in InRemainder

\* C13, amended: an identifier is in the orphan remainder exactly when no
\* root reaches it through the children map, and in a root chain exactly
\* when one does; so an identifier on a cycle of the children map that no
\* root leads into, and a non-root that is in no children set, are in the
\* remainder.
C13_OrphansUnreachable ==
  Done =>
    /\ \A x \in Ids : x \in InRemainder <=> x \notin Reachable
    /\ \A x \in Ids : x \in InChains <=> x \in Reachable
    /\ \A x \in Ids : OnChildrenCycle(x) /\ x \notin Reachable => x \in InRemainder
    /\ \A x \in Ids :
         (x \notin ZeroDeps /\ \A p \in Ids : x \notin Children(p)) => x \in InRemainder

\* The remainder holds an identifier that is its own child, and a chain
\* holds an identifier that is not a root.
C13_Witness ==
  /\ Done
  /\ \E x \in InRemainder : x \in Children(x)
  /\ \E y \in InChains : y \notin ZeroDeps

\* --------------------------------------------------------------------- C14

\* A step of create_block_diagram.
DiagramNext ==
  DiagramStart \/ RootBegin \/ BfsSkip \/ BfsVisit \/ ChainDraw \/ Orphans

\* create_block_diagram, once called, takes its next step as long as it has
\* one: it runs in one thread and waits for nothing.
SpecFair == Init /\ [][Next]_vars /\ WF_vars(DiagramNext)

\* Every identifier marked as processed so far, in the order of the marks:
\* an identifier joins chain_apps exactly when it is marked.
Marked == Concat(chains) \o (IF pc = "bfs" THEN chain_apps ELSE << >>)

\* What bounds the iterations the while loop has left: the unprocessed
\* identifiers first, the length of the queue second.
Measure ==
  LET keys == Range(DictKeys(apps))
  IN Cardinality(keys \ processed) * (Cardinality(keys) + 1) + Len(queue)

\* The children map has a cycle: a self-edge or a longer one.
HasCycle == \E x \in Ids : OnChildrenCycle(x)

\* C14: the breadth-first traversal terminates for every graph, cyclic ones
\* included: the queue never holds an identifier twice, no identifier enters
\* the queue of one chain twice or is marked processed twice, every
\* iteration of the while loop lowers a measure that is never negative, the
\* queue is empty whenever the loop is not running, each loop ends and the
\* whole diagram is eventually done.
C14_BfsTerminates ==
  /\ [](/\ NoRepeats(queue)
        /\ NoRepeats(enqueued)
        /\ NoRepeats(Marked)
        /\ Range(queue) \subseteq Range(enqueued)
        /\ Measure >= 0
        /\ (pc # "bfs" => queue = << >>))
  /\ [][(pc = "bfs" /\ pc' = "bfs") => Measure' < Measure]_vars
  /\ ((pc = "bfs") ~> (pc = "roots" /\ queue = << >>))
  /\ (Parsed ~> (Done /\ queue = << >>))

\* A traversal over a children map with a cycle has ended: the chain of a
\* root that is its own child is complete and the queue is empty.
C14_Witness ==
  /\ Done
  /\ queue = << >>
  /\ HasCycle
  /\ \E k \in 1..Len(chains) : \E x \in Range(chains[k]) : x \in Children(x)

\* --------------------------------------------------------------------- C15

\* Record i carries a reference that names its own identifier, by raw or
\* base name, and that no other identifier registered before it names.
SelfResolves(i) ==
  \E r \in Range(RecDeps(i)) :
    /\ Refers(RecName(i), r)
    /\ \A j \in {k \in RecIdx : k < i} :
         RecName(j) # RecName(i) => ~Refers(RecName(j), r)

\* The last record of identifier x.
LastSeen(x) == CHOOSE i \in RecIdx : RecName(i) = x /\ \A j \in RecIdx : RecName(j) = x => j <= i

\* C15 as stated: a record whose reference names its own identifier or base
\* name, with no earlier-registered identifier matching, puts the identifier
\* in its own children set; such an identifier has a non-empty parent list
\* and is not a root of the graph parse_clusterapps returns.
C15_SelfChildNeverRoot ==
  Parsed => \A i \in RecIdx :
              SelfResolves(i) =>
                /\ RecName(i) \in Children(RecName(i))
                /\ Parents(RecName(i)) # {}
                /\ RecName(i) \notin Range(find_roots(apps))

\* C15, amended: the record is a resolution candidate of its own
\* references.  The step that reads such a record puts the identifier in
\* its own children set and leaves it with a non-empty parent list, so it
\* is not a root then; in the returned graph the identifier is still its own
\* child, and it is a root exactly when its last record has no references.
C15_SelfCandidate ==
  /\ [][ (pc = "parse" /\ idx' = idx + 1 /\ IsRecord(idx) /\ SelfResolves(idx)) =>
           /\ RecName(idx) \in Range(DictKeys(apps'))
           /\ RecName(idx) \in ChildSet(dependents', RecName(idx))
           /\ AppsGet(apps', RecName(idx)) = RecDeps(idx)
           /\ AppsGet(apps', RecName(idx)) # << >>
           /\ RecName(idx) \notin Range(find_roots(apps'))
       ]_vars
  /\ [](Parsed => \A i \in RecIdx :
                    SelfResolves(i) =>
                      /\ RecName(i) \in Children(RecName(i))
                      /\ RecName(i) \in Range(find_roots(apps))
                           <=> RecDeps(LastSeen(RecName(i))) = << >>)

\* A record whose reference is its own base name, not its raw name, has
\* just been read: the identifier is its own child.
C15_Witness ==
  /\ pc = "parse"
  /\ idx > 1
  /\ IsRecord(idx - 1)
  /\ SelfResolves(idx - 1)
  /\ \E r \in Range(RecDeps(idx - 1)) :
       r # RecName(idx - 1) /\ r = get_base_name(RecName(idx - 1))
  /\ RecName(idx - 1) \in ChildSet(dependents, RecName(idx - 1))

====
